---- MODULE Spec2Model ----
(***************************************************************************)
(* DjangoCache (src/diskcache/djangocache.py): the Django cache backend    *)
(* that versions keys, converts timeouts and forwards every call to a      *)
(* sharded, disk backed FanoutCache.  The adapter is translated from the   *)
(* source; the FanoutCache behind it (shards, rows, expiry, tag index,     *)
(* shard transactions) is not part of the inspected source and is modelled *)
(* from the specification of the core.                                     *)
(***************************************************************************)
EXTENDS Integers, Sequences, FiniteSets, TLC

VARIABLES
    store,            \* store[s]: shard s of the FanoutCache: its rows and its tag index
    now,              \* the clock read by the core (time.time())
    closed,           \* closed[p]: handle p has been closed
    default_timeout,  \* BaseCache.default_timeout of the adapter (params TIMEOUT)
    last,             \* the adapter call that returned last and what it returned
    nops,             \* number of steps taken so far
    pc,               \* pc[p]: position of process p inside its current method call
    req,              \* req[p]: the method call process p is making
    plan,             \* plan[p]: the core calls the method has still to make
    snap,             \* snap[p]: the shard as p's open transaction read it
    lock,             \* lock[s]: the process holding shard s's write transaction, or 0
    attempts,         \* attempts[p]: lock attempts of the current core call
    result,           \* result[p]: what p's last core call or its method returned
    applied,          \* applied[p]: shard transactions p's method call has committed
    total,            \* total[p]: rows removed so far by p's aggregate core call
    files,            \* files[f]: file f of the content area: its state and its bytes
    refs,             \* refs[k]: the file the committed row of key k references, or 0
    streams,          \* streams[p]: the stream process p holds open, if any
    writer,           \* writer[p]: how far p's write of a large value has come
    crashes,          \* number of writers that have crashed
    DEFAULT_TIMEOUT   \* the module's DEFAULT_TIMEOUT: Django's marker, or 300 where
                      \* Django exports none

vars == <<store, now, closed, default_timeout, last, nops,
          pc, req, plan, snap, lock, attempts, result, applied, total,
          files, refs, streams, writer, crashes, DEFAULT_TIMEOUT>>

blobvars == <<files, refs, streams, writer, crashes>>

----------------------------------------------------------------------------
(* Bounds of the model *)

MaxOps == 4          \* steps of one behaviour of Spec
NProcs == 2          \* concurrent processes of SpecConc
MaxAttempts == 2     \* lock attempts that fit in the retry budget
ShardCount == 2      \* params SHARDS
MaxFiles == 2        \* files the content area comes to hold in one behaviour
MaxCrashes == 1      \* writers that crash in one behaviour

Procs == 1..NProcs
Shards == 0..(ShardCount - 1)

----------------------------------------------------------------------------
(* Python values: a type tag and an integer payload *)

PyNone == [t |-> "None", n |-> 0]
PyInt(i) == [t |-> "int", n |-> i]
PyBool(b) == [t |-> "bool", n |-> IF b THEN 1 ELSE 0]
PyStream(i) == [t |-> "stream", n |-> i]
Raise(e) == [t |-> e, n |-> 0]

(* DEFAULT_TIMEOUT is imported from Django and, where that import fails, is
   the number 300. *)
DjangoSentinel == [t |-> "DEFAULT_TIMEOUT", n |-> 0]
FallbackTimeout == 300
Markers == {DjangoSentinel, PyInt(FallbackTimeout)}

Errors == {"KeyError", "ValueError", "ClosedCache", "Timeout"}
IsError(r) == r.t \in Errors

(* Inputs.  KeyArgs: key and version; WriteArgs: value, timeout and tag of
   an add or set, covering each value, each kind of timeout and each tag. *)
Keys == {"a", "b"}
VersionArgs == {PyNone, PyInt(2)}
KeyArgs == {<<"a", PyNone>>, <<"b", PyInt(2)>>}
NoTag == "-"
Tags == {"red", "blue"}
WriteArgs == {<<1, DEFAULT_TIMEOUT, NoTag>>, <<2, PyNone, "red">>,
              <<1, PyInt(0), "blue">>, <<2, PyInt(1), "blue">>,
              <<1, PyInt(FallbackTimeout), NoTag>>}
Deltas == {1}
DefaultArgs == {PyNone, PyInt(5)}
DefaultTimeouts == {PyInt(2)}

----------------------------------------------------------------------------
(* BaseCache: key versioning *)

DefaultVersion == 1

make_key(key, version) ==
    <<IF version = PyNone THEN DefaultVersion ELSE version.n, key>>

Versions == {DefaultVersion} \cup {v.n : v \in VersionArgs \ {PyNone}}
MadeKeys == Versions \X Keys

----------------------------------------------------------------------------
(* The core: one shard *)

NoRow == [value |-> 0, expire_time |-> PyNone, tag |-> NoTag, stored |-> FALSE]
Row(v, e, g) == [value |-> v, expire_time |-> e, tag |-> g, stored |-> TRUE]
NoIndex == [exists |-> FALSE, keys |-> [g \in Tags |-> {}]]

EmptyShard == [rows |-> [k \in MadeKeys |-> NoRow], index |-> NoIndex]

Expired(row, t) == row.expire_time # PyNone /\ row.expire_time.n <= t
Live(row, t) == row.stored /\ ~Expired(row, t)

ExpireAt(t, ttl) == IF ttl = PyNone THEN PyNone ELSE PyInt(t + ttl.n)

IndexOf(rows) ==
    [exists |-> TRUE,
     keys |-> [g \in Tags |-> {k \in MadeKeys : rows[k].stored /\ rows[k].tag = g}]]

(* A committed transaction: the rows are replaced and the tag index, when
   the shard has one, follows them. *)
Commit(sh, rows) ==
    [rows |-> rows, index |-> IF sh.index.exists THEN IndexOf(rows) ELSE NoIndex]

Put(sh, k, row) == Commit(sh, [sh.rows EXCEPT ![k] = row])
Remove(sh, ks) == Commit(sh, [k \in MadeKeys |-> IF k \in ks THEN NoRow ELSE sh.rows[k]])

ShardAdd(sh, t, c) ==
    IF Live(sh.rows[c.key], t)
    THEN [shard |-> sh, ret |-> PyBool(FALSE)]
    ELSE [shard |-> Put(sh, c.key, Row(c.value, ExpireAt(t, c.ttl), c.tag)),
          ret |-> PyBool(TRUE)]

ShardSet(sh, t, c) ==
    [shard |-> Put(sh, c.key, Row(c.value, ExpireAt(t, c.ttl), c.tag)),
     ret |-> PyBool(TRUE)]

ShardGet(sh, t, c) ==
    [shard |-> sh,
     ret |-> IF Live(sh.rows[c.key], t) THEN PyInt(sh.rows[c.key].value) ELSE c.default]

ShardRead(sh, t, c) ==
    [shard |-> sh,
     ret |-> IF Live(sh.rows[c.key], t) THEN PyStream(sh.rows[c.key].value)
             ELSE Raise("KeyError")]

ShardContains(sh, t, c) ==
    [shard |-> sh, ret |-> PyBool(Live(sh.rows[c.key], t))]

ShardDelete(sh, t, c) ==
    [shard |-> Remove(sh, {c.key}), ret |-> PyBool(sh.rows[c.key].stored)]

ShardIncr(sh, t, c) ==
    LET row == sh.rows[c.key] IN
    IF Live(row, t)
    THEN [shard |-> Put(sh, c.key, [row EXCEPT !.value = row.value + c.delta]),
          ret |-> PyInt(row.value + c.delta)]
    ELSE IF c.default = PyNone
    THEN [shard |-> sh, ret |-> Raise("KeyError")]
    ELSE [shard |-> Put(sh, c.key, Row(c.default.n + c.delta, PyNone, NoTag)),
          ret |-> PyInt(c.default.n + c.delta)]

ShardExpire(sh, t, c) ==
    LET gone == {k \in MadeKeys : sh.rows[k].stored /\ Expired(sh.rows[k], t)}
    IN [shard |-> Remove(sh, gone), ret |-> PyInt(Cardinality(gone))]

ShardEvict(sh, t, c) ==
    LET gone == IF sh.index.exists THEN sh.index.keys[c.tag]
                ELSE {k \in MadeKeys : sh.rows[k].stored /\ sh.rows[k].tag = c.tag}
    IN [shard |-> Remove(sh, gone), ret |-> PyInt(Cardinality(gone))]

ShardClear(sh, t, c) ==
    LET gone == {k \in MadeKeys : sh.rows[k].stored}
    IN [shard |-> Remove(sh, gone), ret |-> PyInt(Cardinality(gone))]

ShardCreateTagIndex(sh, t, c) ==
    [shard |-> [sh EXCEPT !.index = IndexOf(sh.rows)], ret |-> PyNone]

ShardDropTagIndex(sh, t, c) ==
    [shard |-> [sh EXCEPT !.index = NoIndex], ret |-> PyNone]

KeyOps == {"add", "set", "get", "read", "contains", "delete", "incr"}

ShardApply(sh, t, c) ==
    CASE c.op = "add" -> ShardAdd(sh, t, c)
      [] c.op = "set" -> ShardSet(sh, t, c)
      [] c.op = "get" -> ShardGet(sh, t, c)
      [] c.op = "read" -> ShardRead(sh, t, c)
      [] c.op = "contains" -> ShardContains(sh, t, c)
      [] c.op = "delete" -> ShardDelete(sh, t, c)
      [] c.op = "incr" -> ShardIncr(sh, t, c)
      [] c.op = "expire" -> ShardExpire(sh, t, c)
      [] c.op = "evict" -> ShardEvict(sh, t, c)
      [] c.op = "clear" -> ShardClear(sh, t, c)
      [] c.op = "create_tag_index" -> ShardCreateTagIndex(sh, t, c)
      [] c.op = "drop_tag_index" -> ShardDropTagIndex(sh, t, c)

----------------------------------------------------------------------------
(* The core: the router over the shards *)

StableHash(k) == 2 * k[1] + (IF k[2] = "a" THEN 0 ELSE 1)
ShardOf(k) == StableHash(k) % ShardCount

RECURSIVE SumRet(_, _)
SumRet(f, S) ==
    IF S = {} THEN 0
    ELSE LET s == CHOOSE x \in S : TRUE IN f[s].ret.n + SumRet(f, S \ {s})

(* One call on an open or closed handle: a single-key call runs on the
   key's shard only, an aggregate call on every shard. *)
Fanout(st, t, isClosed, c) ==
    IF c.op = "close"
    THEN [store |-> st, closed |-> TRUE, ret |-> PyNone]
    ELSE IF isClosed
    THEN [store |-> st, closed |-> TRUE, ret |-> Raise("ClosedCache")]
    ELSE IF c.op \in KeyOps
    THEN LET s == ShardOf(c.key)
             r == ShardApply(st[s], t, c)
         IN [store |-> [st EXCEPT ![s] = r.shard], closed |-> FALSE, ret |-> r.ret]
    ELSE LET f == [s \in Shards |-> ShardApply(st[s], t, c)]
         IN [store |-> [s \in Shards |-> f[s].shard],
             closed |-> FALSE,
             ret |-> IF c.op \in {"create_tag_index", "drop_tag_index"}
                     THEN PyNone ELSE PyInt(SumRet(f, Shards))]

----------------------------------------------------------------------------
(* The adapter: each method builds the call it hands to self._cache *)

NoMadeKey == <<0, "">>

CoreCall(op, key) ==
    [op |-> op, key |-> key, value |-> 0, ttl |-> PyNone, tag |-> NoTag,
     delta |-> 0, default |-> PyNone, retry |-> FALSE]

(* get_backend_timeout with the sign of the zero case lost. *)
get_backend_timeout_plus_one(timeout) ==
    LET t1 == IF timeout = DEFAULT_TIMEOUT THEN default_timeout
              ELSE IF timeout = PyInt(0) THEN PyInt(1)
              ELSE timeout
    IN IF t1 = PyNone THEN PyNone ELSE t1

(* get_backend_timeout that takes DEFAULT_TIMEOUT for no expiry. *)
get_backend_timeout_no_default(timeout) ==
    LET t1 == IF timeout = DEFAULT_TIMEOUT THEN PyNone
              ELSE IF timeout = PyInt(0) THEN PyInt(-1)
              ELSE timeout
    IN IF t1 = PyNone THEN PyNone ELSE t1

get_backend_timeout(timeout) ==
    LET t1 == IF timeout = DEFAULT_TIMEOUT THEN default_timeout
              ELSE IF timeout = PyInt(0) THEN PyInt(-1)
              ELSE timeout
    IN IF t1 = PyNone THEN PyNone ELSE t1

(* add written as set: the call overwrites a present key. *)
add_as_set(key, value, timeout, version, tag, retry) ==
    [CoreCall("set", make_key(key, version)) EXCEPT
        !.value = value, !.ttl = get_backend_timeout(timeout), !.tag = tag,
        !.retry = retry]

add(key, value, timeout, version, tag, retry) ==
    [CoreCall("add", make_key(key, version)) EXCEPT
        !.value = value, !.ttl = get_backend_timeout(timeout), !.tag = tag,
        !.retry = retry]

(* get that forgets to pass version on to make_key. *)
get_unversioned(key, default, version, retry) ==
    [CoreCall("get", make_key(key, PyNone)) EXCEPT
        !.default = default, !.retry = retry]

get(key, default, version, retry) ==
    [CoreCall("get", make_key(key, version)) EXCEPT
        !.default = default, !.retry = retry]

(* read written as a get: a missing key gives the default, not KeyError. *)
read_as_get(key, version) == CoreCall("get", make_key(key, version))

read(key, version) == CoreCall("read", make_key(key, version))

set(key, value, timeout, version, tag, retry) ==
    [CoreCall("set", make_key(key, version)) EXCEPT
        !.value = value, !.ttl = get_backend_timeout(timeout), !.tag = tag,
        !.retry = retry]

delete(key, version, retry) ==
    [CoreCall("delete", make_key(key, version)) EXCEPT !.retry = retry]

(* incr that hands the core 0 for an unset default. *)
incr_default_zero(key, delta, version, default, retry) ==
    [CoreCall("incr", make_key(key, version)) EXCEPT
        !.delta = delta, !.default = IF default = PyNone THEN PyInt(0) ELSE default,
        !.retry = retry]

incr(key, delta, version, default, retry) ==
    [CoreCall("incr", make_key(key, version)) EXCEPT
        !.delta = delta, !.default = default, !.retry = retry]

(* decr that forgets to negate delta. *)
decr_same_delta(key, delta, version, default, retry) ==
    incr(key, delta, version, default, retry)

decr(key, delta, version, default, retry) ==
    incr(key, -delta, version, default, retry)

has_key(key, version) == CoreCall("contains", make_key(key, version))

(* expire, evict and close written as the clear next to them. *)
expire_as_clear == CoreCall("clear", NoMadeKey)

evict_as_clear(tag) == CoreCall("clear", NoMadeKey)

close_as_clear == CoreCall("clear", NoMadeKey)

expire == CoreCall("expire", NoMadeKey)

(* create_tag_index written as the drop_tag_index below it. *)
create_as_drop == CoreCall("drop_tag_index", NoMadeKey)

create_tag_index == CoreCall("create_tag_index", NoMadeKey)

drop_tag_index == CoreCall("drop_tag_index", NoMadeKey)

evict(tag) == [CoreCall("evict", NoMadeKey) EXCEPT !.tag = tag]

clear == CoreCall("clear", NoMadeKey)

close == CoreCall("close", NoMadeKey)

(* The statements of a method body that call self._cache, in order: each
   may use the value of the statement before it (a), and has the value the
   call returned or, with `value` set, a value of its own.  incr, decr and
   get are one statement, return self._cache.<method>(...). *)
Results == {PyNone} \cup {PyInt(i) : i \in (0 - NProcs - 1)..(NProcs + 1)}
Returned == [t |-> "returned", n |-> 0]
Stmt(c, value) == [c |-> c, value |-> value]

(* incr as BaseCache writes it: get, set the sum, return the sum. *)
incr_get_then_set(key, delta, version, default, retry) ==
    << [a \in Results |-> Stmt(get(key, PyNone, version, FALSE), Returned)],
       [a \in Results |-> Stmt(set(key, a.n + delta, PyNone, version, NoTag, retry),
                               PyInt(a.n + delta))] >>

incr_calls(key, delta, version, default, retry) ==
    << [a \in Results |-> Stmt(incr(key, delta, version, default, retry), Returned)] >>

decr_calls(key, delta, version, default, retry) ==
    incr_calls(key, -delta, version, default, retry)

get_calls(key, default, version, retry) ==
    << [a \in Results |-> Stmt(get(key, default, version, retry), Returned)] >>

(* add as a check and a write in two calls: get, then set when the get found
   nothing. *)
add_get_then_set(key, value, timeout, version, tag, retry) ==
    << [a \in Results |-> Stmt(get(key, PyNone, version, FALSE), Returned)],
       [a \in Results |->
           IF a = PyNone
           THEN Stmt(set(key, value, timeout, version, tag, retry), PyBool(TRUE))
           ELSE Stmt(get(key, PyNone, version, FALSE), PyBool(FALSE))] >>

add_calls(key, value, timeout, version, tag, retry) ==
    << [a \in Results |-> Stmt(add(key, value, timeout, version, tag, retry), Returned)] >>

(* set as two calls: delete the old entry, then add the new one. *)
set_delete_then_add(key, value, timeout, version, tag, retry) ==
    << [a \in Results |-> Stmt(delete(key, version, retry), PyNone)],
       [a \in Results |-> Stmt(add(key, value, timeout, version, tag, retry), Returned)] >>

set_calls(key, value, timeout, version, tag, retry) ==
    << [a \in Results |-> Stmt(set(key, value, timeout, version, tag, retry), Returned)] >>

(* delete that leaves retry to the core's default. *)
delete_no_retry(key, version, retry) ==
    << [a \in Results |-> Stmt(delete(key, version, FALSE), Returned)] >>

delete_calls(key, version, retry) ==
    << [a \in Results |-> Stmt(delete(key, version, retry), Returned)] >>

expire_calls == << [a \in Results |-> Stmt(expire, Returned)] >>

evict_calls(tag) == << [a \in Results |-> Stmt(evict(tag), Returned)] >>

(* clear written as the expire above it. *)
clear_as_expire == << [a \in Results |-> Stmt(expire, Returned)] >>

clear_calls == << [a \in Results |-> Stmt(clear, Returned)] >>

(* What each method hands back for what self._cache returned: delete drops
   it, incr and decr turn KeyError into ValueError, the methods without a
   return statement return None; an exception propagates. *)
delete_return(r) == IF IsError(r) THEN r ELSE PyNone

incr_return(r) == IF r.t = "KeyError" THEN Raise("ValueError") ELSE r

void_return(r) == IF IsError(r) THEN r ELSE PyNone

MethodReturn(name, r) ==
    CASE name = "delete" -> delete_return(r)
      [] name \in {"incr", "decr"} -> incr_return(r)
      [] name \in {"create_tag_index", "drop_tag_index", "close"} -> void_return(r)
      [] OTHER -> r

----------------------------------------------------------------------------
(* Spec: one handle, every call runs alone *)

Main == 1
NoKey == ""

NoArgs ==
    [key |-> NoKey, version |-> PyNone, value |-> 0, timeout |-> PyNone,
     tag |-> NoTag, delta |-> 0, default |-> PyNone]

(* The method call name(a), the call c it handed to self._cache, and what
   the method returned. *)
Called(name, a, c, ret) == [op |-> name, a |-> a, c |-> c, ret |-> ret]

NoCall == Called("init", NoArgs, CoreCall("init", NoMadeKey), PyNone)

NoReq == [op |-> "init", key |-> NoMadeKey, delta |-> 0, retry |-> FALSE]

(* The content area of a shard.  A file is "unused" (its name not taken
   yet), "partial" (temporary, some of the bytes written), "temp"
   (temporary, all bytes written), "placed" (visible under its final name),
   "unlinked" (no row references it any more, streams still do) or
   "removed". *)
Files == 1..MaxFiles
NoFile == [state |-> "unused", data |-> 0]
GoneFile == [state |-> "removed", data |-> 0]
NoStream == [file |-> 0, data |-> 0]
NoWrite == [pc |-> "idle", file |-> 0, c |-> CoreCall("set", NoMadeKey)]

BlobIdle ==
    /\ files = [f \in Files |-> NoFile]
    /\ refs = [k \in MadeKeys |-> 0]
    /\ streams = [p \in Procs |-> NoStream]
    /\ writer = [p \in Procs |-> NoWrite]
    /\ crashes = 0

ConcIdle ==
    /\ BlobIdle
    /\ pc = [p \in Procs |-> "idle"]
    /\ req = [p \in Procs |-> NoReq]
    /\ plan = [p \in Procs |-> <<>>]
    /\ snap = [p \in Procs |-> EmptyShard]
    /\ lock = [s \in Shards |-> 0]
    /\ attempts = [p \in Procs |-> 0]
    /\ result = [p \in Procs |-> PyNone]
    /\ applied = [p \in Procs |-> 0]
    /\ total = [p \in Procs |-> 0]

Init ==
    /\ store = [s \in Shards |-> EmptyShard]
    /\ now = 0
    /\ closed = [p \in Procs |-> FALSE]
    /\ default_timeout \in DefaultTimeouts
    /\ DEFAULT_TIMEOUT \in Markers
    /\ last = NoCall
    /\ nops = 0
    /\ ConcIdle

(* The handle's call c runs to completion and the method returns.  Every
   action states its guard first and makes the call under it, so that the
   call is evaluated in the state it is made in. *)
Returns(p, name, a, c) ==
    LET r == Fanout(store, now, closed[p], c) IN
    /\ store' = r.store
    /\ closed' = [closed EXCEPT ![p] = r.closed]
    /\ last' = Called(name, a, c, MethodReturn(name, r.ret))
    /\ nops' = nops + 1
    /\ UNCHANGED <<now, default_timeout, pc, req, plan, snap, lock, attempts, result,
                   applied, total, blobvars, DEFAULT_TIMEOUT>>

KeyOf(k) == [NoArgs EXCEPT !.key = k[1], !.version = k[2]]

Add(p) ==
    \E k \in KeyArgs, w \in WriteArgs :
        /\ nops < MaxOps
        /\ Returns(p, "add",
                [KeyOf(k) EXCEPT !.value = w[1], !.timeout = w[2], !.tag = w[3]],
                add(k[1], w[1], w[2], k[2], w[3], TRUE))

Get(p) ==
    \E k \in KeyArgs :
        /\ nops < MaxOps
        /\ Returns(p, "get", KeyOf(k), get(k[1], PyNone, k[2], FALSE))

Read(p) ==
    \E k \in KeyArgs :
        /\ nops < MaxOps
        /\ Returns(p, "read", KeyOf(k), read(k[1], k[2]))

Set(p) ==
    \E k \in KeyArgs, w \in WriteArgs :
        /\ nops < MaxOps
        /\ Returns(p, "set",
                [KeyOf(k) EXCEPT !.value = w[1], !.timeout = w[2], !.tag = w[3]],
                set(k[1], w[1], w[2], k[2], w[3], TRUE))

Delete(p) ==
    \E k \in KeyArgs :
        /\ nops < MaxOps
        /\ Returns(p, "delete", KeyOf(k), delete(k[1], k[2], TRUE))

Incr(p) ==
    \E k \in KeyArgs, delta \in Deltas, default \in DefaultArgs :
        /\ nops < MaxOps
        /\ Returns(p, "incr",
                [KeyOf(k) EXCEPT !.delta = delta, !.default = default],
                incr(k[1], delta, k[2], default, TRUE))

Decr(p) ==
    \E k \in KeyArgs, delta \in Deltas, default \in DefaultArgs :
        /\ nops < MaxOps
        /\ Returns(p, "decr",
                [KeyOf(k) EXCEPT !.delta = delta, !.default = default],
                decr(k[1], delta, k[2], default, TRUE))

HasKey(p) ==
    \E k \in KeyArgs :
        /\ nops < MaxOps
        /\ Returns(p, "has_key", KeyOf(k), has_key(k[1], k[2]))

Expire(p) ==
    /\ nops < MaxOps
    /\ Returns(p, "expire", NoArgs, expire)

CreateTagIndex(p) ==
    /\ nops < MaxOps
    /\ Returns(p, "create_tag_index", NoArgs, create_tag_index)

DropTagIndex(p) ==
    /\ nops < MaxOps
    /\ Returns(p, "drop_tag_index", NoArgs, drop_tag_index)

Evict(p) ==
    \E tag \in Tags :
        /\ nops < MaxOps
        /\ Returns(p, "evict", [NoArgs EXCEPT !.tag = tag], evict(tag))

Clear(p) ==
    /\ nops < MaxOps
    /\ Returns(p, "clear", NoArgs, clear)

Close(p) ==
    /\ nops < MaxOps
    /\ Returns(p, "close", NoArgs, close)

(* The clock advances between two calls. *)
Tick ==
    /\ nops < MaxOps
    /\ now' = now + 1
    /\ last' = Called("tick", NoArgs, CoreCall("tick", NoMadeKey), PyNone)
    /\ nops' = nops + 1
    /\ UNCHANGED <<store, closed, default_timeout, pc, req, plan, snap, lock,
                   attempts, result, applied, total, blobvars, DEFAULT_TIMEOUT>>

Next ==
    \/ Add(Main)
    \/ Get(Main)
    \/ Read(Main)
    \/ Set(Main)
    \/ Delete(Main)
    \/ Incr(Main)
    \/ Decr(Main)
    \/ HasKey(Main)
    \/ Expire(Main)
    \/ CreateTagIndex(Main)
    \/ DropTagIndex(Main)
    \/ Evict(Main)
    \/ Clear(Main)
    \/ Close(Main)
    \/ Tick

Spec == Init /\ [][Next]_vars

----------------------------------------------------------------------------
(* SpecTTL: the handle of Spec under every kind of configured default
   timeout (params TIMEOUT: None, 0 or a positive number), writing and
   reading. *)

TimeoutConfigs == {PyNone, PyInt(0), PyInt(2)}

InitTTL ==
    /\ store = [s \in Shards |-> EmptyShard]
    /\ now = 0
    /\ closed = [p \in Procs |-> FALSE]
    /\ default_timeout \in TimeoutConfigs
    /\ DEFAULT_TIMEOUT \in Markers
    /\ nops = 0
    /\ last = NoCall
    /\ ConcIdle

NextTTL ==
    \/ Add(Main)
    \/ Set(Main)
    \/ Get(Main)
    \/ HasKey(Main)
    \/ Tick

SpecTTL == InitTTL /\ [][NextTTL]_vars

----------------------------------------------------------------------------
(* SpecConc: processes sharing the cache directory, each making one method
   call on counters that start at 0.  A mutating core call is one shard
   transaction: it takes the shard's lock, reads the shard, and commits what
   it computed from that reading when it releases the lock.  A process that
   finds the lock taken tries again while the retry budget lasts. *)

MutatingOps == {"add", "set", "delete", "incr"}

CounterStore ==
    LET st0 == [s \in Shards |-> EmptyShard]
        st1 == Fanout(st0, 0, FALSE, set("a", 0, PyNone, PyNone, NoTag, TRUE)).store
    IN Fanout(st1, 0, FALSE, set("b", 0, PyNone, PyInt(2), NoTag, TRUE)).store

InitConc ==
    /\ default_timeout \in DefaultTimeouts
    /\ DEFAULT_TIMEOUT \in Markers
    /\ store = CounterStore
    /\ now = 0
    /\ closed = [p \in Procs |-> FALSE]
    /\ last = NoCall
    /\ nops = 0
    /\ ConcIdle

CurStmt(p) == Head(plan[p])[result[p]]
Cur(p) == CurStmt(p).c

(* One lock for the whole cache in place of one a shard. *)
NoShardLocked(s) == \A s2 \in Shards : lock[s2] = 0

ShardFree(s) == lock[s] = 0

ConcUnchanged ==
    UNCHANGED <<now, closed, default_timeout, last, nops, blobvars, DEFAULT_TIMEOUT>>

Begin(p, name, k, delta, retry, calls) ==
    /\ pc' = [pc EXCEPT ![p] = "begin"]
    /\ plan' = [plan EXCEPT ![p] = calls]
    /\ req' = [req EXCEPT ![p] = [op |-> name, key |-> make_key(k[1], k[2]),
                                 delta |-> delta, retry |-> retry]]
    /\ applied' = [applied EXCEPT ![p] = 0]
    /\ UNCHANGED <<store, snap, lock, attempts, result, total>>
    /\ ConcUnchanged

StartIncr(p) ==
    \E k \in KeyArgs, delta \in Deltas, retry \in BOOLEAN :
        /\ pc[p] = "idle"
        /\ Begin(p, "incr", k, delta, retry, incr_calls(k[1], delta, k[2], PyNone, retry))

StartDecr(p) ==
    \E k \in KeyArgs, delta \in Deltas, retry \in BOOLEAN :
        /\ pc[p] = "idle"
        /\ Begin(p, "decr", k, delta, retry, decr_calls(k[1], delta, k[2], PyNone, retry))

StartGet(p) ==
    \E k \in KeyArgs :
        /\ pc[p] = "idle"
        /\ Begin(p, "get", k, 0, FALSE, get_calls(k[1], PyNone, k[2], FALSE))

(* The core call returned ret: the method goes on to its next statement, or
   returns; an exception ends the method. *)
Finish(p, ret) ==
    LET v == IF IsError(ret) \/ CurStmt(p).value = Returned THEN ret
             ELSE CurStmt(p).value
    IN IF IsError(ret) \/ Len(plan[p]) = 1
       THEN /\ pc' = [pc EXCEPT ![p] = "done"]
            /\ plan' = [plan EXCEPT ![p] = <<>>]
            /\ result' = [result EXCEPT ![p] = MethodReturn(req[p].op, v)]
       ELSE /\ pc' = [pc EXCEPT ![p] = "begin"]
            /\ plan' = [plan EXCEPT ![p] = Tail(plan[p])]
            /\ result' = [result EXCEPT ![p] = v]

Acquire(p) ==
    /\ pc[p] = "begin"
    /\ Cur(p).op \in MutatingOps
    /\ ShardFree(ShardOf(Cur(p).key))
    /\ lock' = [lock EXCEPT ![ShardOf(Cur(p).key)] = p]
    /\ snap' = [snap EXCEPT ![p] = store[ShardOf(Cur(p).key)]]
    /\ pc' = [pc EXCEPT ![p] = "txn"]
    /\ UNCHANGED <<store, req, plan, attempts, result, applied, total>>
    /\ ConcUnchanged

Busy(p) ==
    /\ pc[p] = "begin"
    /\ Cur(p).op \in MutatingOps
    /\ ~ShardFree(ShardOf(Cur(p).key))
    /\ IF Cur(p).retry /\ attempts[p] + 1 < MaxAttempts
       THEN /\ attempts' = [attempts EXCEPT ![p] = attempts[p] + 1]
            /\ UNCHANGED <<pc, plan, result>>
       ELSE /\ attempts' = [attempts EXCEPT ![p] = 0]
            /\ Finish(p, Raise("Timeout"))
    /\ UNCHANGED <<store, req, snap, lock, applied, total>>
    /\ ConcUnchanged

CommitTxn(p) ==
    /\ pc[p] = "txn"
    /\ Cur(p).op \in MutatingOps
    /\ LET c == Cur(p)
           s == ShardOf(c.key)
           r == ShardApply(snap[p], now, c)
       IN /\ store' = [store EXCEPT ![s] = r.shard]
          /\ lock' = [lock EXCEPT ![s] = IF lock[s] = p THEN 0 ELSE lock[s]]
          /\ Finish(p, r.ret)
    /\ snap' = [snap EXCEPT ![p] = EmptyShard]
    /\ attempts' = [attempts EXCEPT ![p] = 0]
    /\ applied' = [applied EXCEPT ![p] = applied[p] + 1]
    /\ UNCHANGED <<req, total>>
    /\ ConcUnchanged

ReadCall(p) ==
    /\ pc[p] = "begin"
    /\ Cur(p).op \in KeyOps \ MutatingOps
    /\ LET c == Cur(p)
           r == ShardApply(store[ShardOf(c.key)], now, c)
       IN Finish(p, r.ret)
    /\ UNCHANGED <<store, req, snap, lock, attempts, applied, total>>
    /\ ConcUnchanged

NextConc ==
    \E p \in Procs :
        \/ StartIncr(p)
        \/ StartDecr(p)
        \/ StartGet(p)
        \/ Acquire(p)
        \/ Busy(p)
        \/ CommitTxn(p)
        \/ ReadCall(p)

SpecConc == InitConc /\ [][NextConc]_vars

----------------------------------------------------------------------------
(* SpecLock: processes sharing the cache directory, each making one call of
   any kind on a store that holds key "a" and lacks key "b".
   An aggregate core call (clear, expire, evict) sweeps the shards in order,
   one shard transaction each, and gives up with Timeout at the first shard
   it cannot lock within the retry budget. *)

AggOps == {"clear", "expire", "evict"}

SeededStore ==
    LET st0 == [s \in Shards |-> EmptyShard]
    IN Fanout(st0, 0, FALSE, set("a", 0, PyNone, PyNone, "red", TRUE)).store

InitLock ==
    /\ default_timeout \in DefaultTimeouts
    /\ DEFAULT_TIMEOUT \in Markers
    /\ store = SeededStore
    /\ now = 0
    /\ closed = [p \in Procs |-> FALSE]
    /\ nops = 0
    /\ last = NoCall
    /\ ConcIdle

(* Each process writes its own number as the value.  RetryArgs: key,
   version and retry of an add, set or delete, one key with each retry. *)
RetryArgs == {<<"a", PyNone, FALSE>>, <<"b", PyInt(2), TRUE>>}

StartAdd(p) ==
    \E c \in RetryArgs :
        /\ pc[p] = "idle"
        /\ Begin(p, "add", c, 0, c[3], add_calls(c[1], p, PyNone, c[2], NoTag, c[3]))

StartSet(p) ==
    \E c \in RetryArgs :
        /\ pc[p] = "idle"
        /\ Begin(p, "set", c, 0, c[3], set_calls(c[1], p, PyNone, c[2], NoTag, c[3]))

StartDelete(p) ==
    \E c \in RetryArgs :
        /\ pc[p] = "idle"
        /\ Begin(p, "delete", c, 0, c[3], delete_calls(c[1], c[2], c[3]))

StartExpire(p) ==
    /\ pc[p] = "idle"
    /\ Begin(p, "expire", <<NoKey, PyNone>>, 0, FALSE, expire_calls)

StartEvict(p) ==
    \E tag \in {"red"} :
        /\ pc[p] = "idle"
        /\ Begin(p, "evict", <<NoKey, PyNone>>, 0, FALSE, evict_calls(tag))

StartClear(p) ==
    /\ pc[p] = "idle"
    /\ Begin(p, "clear", <<NoKey, PyNone>>, 0, FALSE, clear_calls)

(* The shard an aggregate call sweeps next. *)
NextShard(p) == applied[p]

AggAcquire(p) ==
    /\ pc[p] = "begin"
    /\ Cur(p).op \in AggOps
    /\ ShardFree(NextShard(p))
    /\ lock' = [lock EXCEPT ![NextShard(p)] = p]
    /\ snap' = [snap EXCEPT ![p] = store[NextShard(p)]]
    /\ pc' = [pc EXCEPT ![p] = "txn"]
    /\ UNCHANGED <<store, req, plan, attempts, result, applied, total>>
    /\ ConcUnchanged

AggBusy(p) ==
    /\ pc[p] = "begin"
    /\ Cur(p).op \in AggOps
    /\ ~ShardFree(NextShard(p))
    /\ IF Cur(p).retry /\ attempts[p] + 1 < MaxAttempts
       THEN /\ attempts' = [attempts EXCEPT ![p] = attempts[p] + 1]
            /\ UNCHANGED <<pc, plan, result, total>>
       ELSE /\ attempts' = [attempts EXCEPT ![p] = 0]
            /\ total' = [total EXCEPT ![p] = 0]
            /\ Finish(p, Raise("Timeout"))
    /\ UNCHANGED <<store, req, snap, lock, applied>>
    /\ ConcUnchanged

AggCommit(p) ==
    /\ pc[p] = "txn"
    /\ Cur(p).op \in AggOps
    /\ LET s == NextShard(p)
           r == ShardApply(snap[p], now, Cur(p))
       IN /\ store' = [store EXCEPT ![s] = r.shard]
          /\ lock' = [lock EXCEPT ![s] = IF lock[s] = p THEN 0 ELSE lock[s]]
          /\ IF s + 1 = ShardCount
             THEN /\ Finish(p, PyInt(total[p] + r.ret.n))
                  /\ total' = [total EXCEPT ![p] = 0]
             ELSE /\ pc' = [pc EXCEPT ![p] = "begin"]
                  /\ total' = [total EXCEPT ![p] = total[p] + r.ret.n]
                  /\ UNCHANGED <<plan, result>>
    /\ snap' = [snap EXCEPT ![p] = EmptyShard]
    /\ attempts' = [attempts EXCEPT ![p] = 0]
    /\ applied' = [applied EXCEPT ![p] = applied[p] + 1]
    /\ UNCHANGED req
    /\ ConcUnchanged

(* A step of process p inside its call. *)
Step(p) ==
    \/ Acquire(p)
    \/ Busy(p)
    \/ CommitTxn(p)
    \/ ReadCall(p)
    \/ AggAcquire(p)
    \/ AggBusy(p)
    \/ AggCommit(p)

NextLock ==
    \E p \in Procs :
        \/ StartAdd(p)
        \/ StartSet(p)
        \/ StartDelete(p)
        \/ StartIncr(p)
        \/ StartGet(p)
        \/ StartExpire(p)
        \/ StartEvict(p)
        \/ StartClear(p)
        \/ Step(p)

SpecLock == InitLock /\ [][NextLock]_vars

(* The calls whose termination is followed: a write and a removal with
   either retry setting, a read, and a sweep over the shards. *)
NextLockFair ==
    \E p \in Procs :
        \/ StartSet(p)
        \/ StartDelete(p)
        \/ StartGet(p)
        \/ StartClear(p)
        \/ Step(p)

(* A process inside a call keeps running: its retry loop and its
   transaction are not suspended for ever. *)
SpecLockFair ==
    InitLock /\ [][NextLockFair]_vars /\ \A p \in Procs : WF_vars(Step(p))

----------------------------------------------------------------------------
(* Large values: set writes the value to a file of the content area and
   commits a row that references it; read hands out a stream on the file
   the row references.  A write goes step by step and the steps of writers,
   readers and crashes interleave. *)

CacheUnchanged ==
    UNCHANGED <<store, now, closed, default_timeout, last, nops, pc, req, plan,
                snap, lock, attempts, applied, total, DEFAULT_TIMEOUT>>

BlobArgs == {<<"a", PyNone>>}

UnusedFiles == {f \in Files : files[f].state = "unused"}
NewFile == CHOOSE f \in UnusedFiles : \A g \in UnusedFiles : f <= g
Readers(ss, f) == {p \in Procs : ss[p].file = f}

(* The row is committed whatever has become of the file. *)
Begun(p) == writer[p].pc # "idle"

(* The file of p's write is in place under its final name. *)
Placed(p) == writer[p].pc = "placed"

(* The file is removed whether or not a stream is open on it. *)
ReleaseAtOnce(fs, ss, f) ==
    IF f = 0 THEN fs ELSE [fs EXCEPT ![f] = GoneFile]

(* File f is no longer referenced by a row: it is removed when no stream
   is open on it and stays, unlinked, while one is. *)
Release(fs, ss, f) ==
    IF f = 0 THEN fs
    ELSE IF Readers(ss, f) = {} THEN [fs EXCEPT ![f] = GoneFile]
    ELSE [fs EXCEPT ![f].state = "unlinked"]

(* set(key, value, read=True): the temporary file is created and the first
   bytes are written. *)
WriteTemp(p) ==
    /\ writer[p].pc = "idle"
    /\ UnusedFiles # {}
    /\ \E k \in BlobArgs :
           writer' = [writer EXCEPT ![p] =
               [pc |-> "partial", file |-> NewFile,
                c |-> set(k[1], p, DEFAULT_TIMEOUT, k[2], NoTag, TRUE)]]
    /\ files' = [files EXCEPT ![NewFile] = [state |-> "partial", data |-> 0]]
    /\ UNCHANGED <<refs, streams, crashes, result>>
    /\ CacheUnchanged

(* The rest of the bytes are written. *)
WriteRest(p) ==
    /\ writer[p].pc = "partial"
    /\ files' = [files EXCEPT ![writer[p].file] =
                     [state |-> "temp", data |-> writer[p].c.value]]
    /\ writer' = [writer EXCEPT ![p].pc = "temp"]
    /\ UNCHANGED <<refs, streams, crashes, result>>
    /\ CacheUnchanged

(* The temporary file is made visible under its final name in one step. *)
MakeVisible(p) ==
    /\ writer[p].pc = "temp"
    /\ files' = [files EXCEPT ![writer[p].file].state = "placed"]
    /\ writer' = [writer EXCEPT ![p].pc = "placed"]
    /\ UNCHANGED <<refs, streams, crashes, result>>
    /\ CacheUnchanged

(* The transaction: the row of the key references the new file and the file
   it referenced before is released. *)
CommitRow(p) ==
    /\ Placed(p)
    /\ refs' = [refs EXCEPT ![writer[p].c.key] = writer[p].file]
    /\ files' = Release(files, streams, refs[writer[p].c.key])
    /\ writer' = [writer EXCEPT ![p] = NoWrite]
    /\ UNCHANGED <<streams, crashes, result>>
    /\ CacheUnchanged

(* The writing process dies between two steps: what it has written stays
   where it is, no row is committed, and the stream it held is closed with
   the process. *)
Crash(p) ==
    /\ writer[p].pc # "idle"
    /\ crashes < MaxCrashes
    /\ crashes' = crashes + 1
    /\ writer' = [writer EXCEPT ![p] = NoWrite]
    /\ streams' = [streams EXCEPT ![p] = NoStream]
    /\ files' = IF /\ streams[p] # NoStream
                   /\ files[streams[p].file].state = "unlinked"
                   /\ Readers(streams, streams[p].file) = {p}
                THEN [files EXCEPT ![streams[p].file] = GoneFile]
                ELSE files
    /\ UNCHANGED <<refs, result>>
    /\ CacheUnchanged

(* read(key): a stream on the file the committed row references, KeyError
   when there is no row. *)
OpenStream(p) ==
    /\ streams[p] = NoStream
    /\ \E k \in BlobArgs :
           LET c == read(k[1], k[2]) IN
           IF refs[c.key] = 0
           THEN /\ result' = [result EXCEPT ![p] = Raise("KeyError")]
                /\ UNCHANGED streams
           ELSE /\ result' = [result EXCEPT ![p] = PyStream(files[refs[c.key]].data)]
                /\ streams' = [streams EXCEPT ![p] =
                       [file |-> refs[c.key], data |-> files[refs[c.key]].data]]
    /\ UNCHANGED <<files, refs, writer, crashes>>
    /\ CacheUnchanged

(* The stream is closed; an unlinked file goes with its last stream. *)
CloseStream(p) ==
    /\ streams[p] # NoStream
    /\ streams' = [streams EXCEPT ![p] = NoStream]
    /\ files' = IF /\ files[streams[p].file].state = "unlinked"
                   /\ Readers(streams, streams[p].file) = {p}
                THEN [files EXCEPT ![streams[p].file] = GoneFile]
                ELSE files
    /\ UNCHANGED <<refs, writer, crashes, result>>
    /\ CacheUnchanged

(* delete(key): the row goes in one transaction and its file is released. *)
DeleteRow(p) ==
    /\ writer[p].pc = "idle"
    /\ \E k \in BlobArgs :
           LET c == delete(k[1], k[2], TRUE) IN
           /\ refs[c.key] # 0
           /\ refs' = [refs EXCEPT ![c.key] = 0]
           /\ files' = Release(files, streams, refs[c.key])
    /\ UNCHANGED <<streams, writer, crashes, result>>
    /\ CacheUnchanged

NextBlob ==
    \E p \in Procs :
        \/ WriteTemp(p)
        \/ WriteRest(p)
        \/ MakeVisible(p)
        \/ CommitRow(p)
        \/ Crash(p)
        \/ OpenStream(p)
        \/ CloseStream(p)
        \/ DeleteRow(p)

SpecBlob == Init /\ [][NextBlob]_vars

----------------------------------------------------------------------------
(* Calls that may end in Timeout: add, set, delete, incr and decr on a cache
   whose tag index has been created, and set of a large value, whose file
   is written and placed before the row's transaction is attempted. *)

IndexedStore == Fanout(SeededStore, 0, FALSE, create_tag_index).store

InitTimeout ==
    /\ default_timeout \in DefaultTimeouts
    /\ DEFAULT_TIMEOUT \in Markers
    /\ store = IndexedStore
    /\ now = 0
    /\ closed = [p \in Procs |-> FALSE]
    /\ nops = 0
    /\ last = NoCall
    /\ ConcIdle

(* Key and version of the large value, with either retry setting. *)
LargeArgs == {<<"b", PyNone, FALSE>>, <<"b", PyNone, TRUE>>}

(* The file of a call that timed out is taken out of the content area. *)
Discard(fs, f) == [fs EXCEPT ![f] = GoneFile]

(* set(key, value, read=True) of a large value: the temporary file is
   created and the first bytes are written. *)
StartLargeSet(p) ==
    /\ pc[p] = "idle"
    /\ UnusedFiles # {}
    /\ \E k \in LargeArgs :
           /\ writer' = [writer EXCEPT ![p] =
                  [pc |-> "partial", file |-> NewFile,
                   c |-> set(k[1], p, PyNone, k[2], "red", k[3])]]
           /\ req' = [req EXCEPT ![p] = [op |-> "set", key |-> make_key(k[1], k[2]),
                                        delta |-> 0, retry |-> k[3]]]
    /\ files' = [files EXCEPT ![NewFile] = [state |-> "partial", data |-> 0]]
    /\ pc' = [pc EXCEPT ![p] = "file"]
    /\ applied' = [applied EXCEPT ![p] = 0]
    /\ UNCHANGED <<store, now, closed, default_timeout, last, nops, plan, snap, lock,
                   attempts, result, total, refs, streams, crashes, DEFAULT_TIMEOUT>>

(* The row's transaction, the shard being free: the row is written as set
   writes it, it references the new file, and the file it referenced before
   is released. *)
LargeCommit(p) ==
    /\ pc[p] = "file"
    /\ Placed(p)
    /\ ShardFree(ShardOf(writer[p].c.key))
    /\ store' = [store EXCEPT ![ShardOf(writer[p].c.key)] =
                     ShardApply(store[ShardOf(writer[p].c.key)], now, writer[p].c).shard]
    /\ refs' = [refs EXCEPT ![writer[p].c.key] = writer[p].file]
    /\ files' = Release(files, streams, refs[writer[p].c.key])
    /\ writer' = [writer EXCEPT ![p] = NoWrite]
    /\ pc' = [pc EXCEPT ![p] = "done"]
    /\ result' = [result EXCEPT ![p] = PyBool(TRUE)]
    /\ attempts' = [attempts EXCEPT ![p] = 0]
    /\ applied' = [applied EXCEPT ![p] = applied[p] + 1]
    /\ UNCHANGED <<now, closed, default_timeout, last, nops, req, plan, snap, lock,
                   total, streams, crashes, DEFAULT_TIMEOUT>>

(* The shard is locked by another writer: the call tries again while retry
   and the budget allow, and otherwise ends in Timeout, its file removed. *)
LargeBusy(p) ==
    /\ pc[p] = "file"
    /\ Placed(p)
    /\ ~ShardFree(ShardOf(writer[p].c.key))
    /\ IF writer[p].c.retry /\ attempts[p] + 1 < MaxAttempts
       THEN /\ attempts' = [attempts EXCEPT ![p] = attempts[p] + 1]
            /\ UNCHANGED <<pc, result, files, writer>>
       ELSE /\ attempts' = [attempts EXCEPT ![p] = 0]
            /\ files' = Discard(files, writer[p].file)
            /\ writer' = [writer EXCEPT ![p] = NoWrite]
            /\ pc' = [pc EXCEPT ![p] = "done"]
            /\ result' = [result EXCEPT ![p] = Raise("Timeout")]
    /\ UNCHANGED <<store, now, closed, default_timeout, last, nops, req, plan, snap,
                   lock, applied, total, refs, streams, crashes, DEFAULT_TIMEOUT>>

NextTimeout ==
    \E p \in Procs :
        \/ StartAdd(p)
        \/ StartSet(p)
        \/ StartDelete(p)
        \/ StartIncr(p)
        \/ StartDecr(p)
        \/ Acquire(p)
        \/ Busy(p)
        \/ CommitTxn(p)
        \/ StartLargeSet(p)
        \/ WriteRest(p)
        \/ MakeVisible(p)
        \/ LargeCommit(p)
        \/ LargeBusy(p)

SpecTimeout == InitTimeout /\ [][NextTimeout]_vars

----------------------------------------------------------------------------
(* Properties of Spec.  A step of Spec is one method call (or a tick); last'
   is the call, RowOf(k) the row of made key k before it and RowAfter(k) the
   row after it. *)

RowOf(k) == store[ShardOf(k)].rows[k]
RowAfter(k) == store'[ShardOf(k)].rows[k]
UserKey(l) == make_key(l.a.key, l.a.version)
Stepped == nops' = nops + 1
Did(name) == Stepped /\ last'.op = name /\ ~IsError(last'.ret)
Then(name) == Did(name) /\ ~IsError(last.ret) /\ UserKey(last') = UserKey(last)

(* C1: a set stores its value under the versioned key and returns True ... *)
C1_SetStores ==
    Did("set") =>
        /\ last'.ret = PyBool(TRUE)
        /\ RowAfter(UserKey(last')).stored
        /\ RowAfter(UserKey(last')).value = last'.a.value

(* ... a live key keeps its value through every call but a set, incr or decr
   of that key, and stops being live only by a delete or set of that key, an
   evict, a clear or the passing of time ... *)
C1_Preserved ==
    \A k \in MadeKeys :
        Live(RowOf(k), now) =>
            IF Live(RowAfter(k), now')
            THEN \/ RowAfter(k).value = RowOf(k).value
                 \/ last'.op \in {"set", "incr", "decr"} /\ UserKey(last') = k
            ELSE \/ last'.op \in {"tick", "evict", "clear"}
                 \/ last'.op \in {"set", "delete"} /\ UserKey(last') = k

(* ... and a get returns the value of its key when the key is live, so the
   get that follows a set of the same key returns the value that was set. *)
C1_GetReturns ==
    Did("get") =>
        last'.ret = IF Live(RowOf(UserKey(last')), now)
                    THEN PyInt(RowOf(UserKey(last')).value)
                    ELSE last'.a.default

C1_RoundTrip ==
    (last.op = "set" /\ Then("get") /\ Live(RowOf(UserKey(last)), now)) =>
        last'.ret = PyInt(last.a.value)

(* C1: after set(k, v), get(k) returns v until k is overwritten by set, incr
   or decr, removed, or expired; calls on other keys do not change it. *)
C1_SetThenGet ==
    [][C1_SetStores /\ C1_Preserved /\ C1_GetReturns /\ C1_RoundTrip]_vars

C1_Witness ==
    /\ last.op = "get"
    /\ last.a.key = "b"
    /\ last.ret = PyInt(2)
    /\ nops >= 3

(* C2: add writes and returns True exactly when its key is absent or
   expired; on a live key it returns False and leaves the store as it was,
   so that the get that follows returns the earlier value. *)
C2_Add ==
    Did("add") =>
        IF Live(RowOf(UserKey(last')), now)
        THEN last'.ret = PyBool(FALSE) /\ store' = store
        ELSE /\ last'.ret = PyBool(TRUE)
             /\ RowAfter(UserKey(last')).stored
             /\ RowAfter(UserKey(last')).value = last'.a.value
             /\ RowAfter(UserKey(last')).tag = last'.a.tag

C2_AddThenGet ==
    (last.op = "add" /\ last.ret = PyBool(FALSE) /\ Then("get")) =>
        last'.ret = PyInt(RowOf(UserKey(last)).value)

C2_AddOnlyIfAbsent == [][C2_Add /\ C2_AddThenGet]_vars

C2_Witness ==
    /\ last.op = "add"
    /\ last.ret = PyBool(FALSE)
    /\ RowOf(UserKey(last)).value # last.a.value

Open == ~closed[Main]
KeyedMethods == {"add", "get", "read", "set", "delete", "incr", "decr", "has_key"}
StoredKeys == {k \in MadeKeys : RowOf(k).stored}

(* C4: incr of an absent or expired key fails with ValueError (the core's
   KeyError) and changes nothing when default is unset, and stores and
   returns default + delta when it is set. *)
C4_Incr ==
    (Stepped /\ last'.op = "incr" /\ Open /\ ~Live(RowOf(UserKey(last')), now)) =>
        IF last'.a.default = PyNone
        THEN last'.ret = Raise("ValueError") /\ store' = store
        ELSE /\ last'.ret = PyInt(last'.a.default.n + last'.a.delta)
             /\ Live(RowAfter(UserKey(last')), now')
             /\ RowAfter(UserKey(last')).value = last'.a.default.n + last'.a.delta

C4_IncrAbsent == [][C4_Incr]_vars

C4_Witness ==
    /\ last.op = "incr"
    /\ last.ret = Raise("ValueError")
    /\ RowOf(UserKey(last)).stored
    /\ Expired(RowOf(UserKey(last)), now)

(* C5: set with timeout 0 stores a row that is expired at once, an expired
   row stays expired until its key is written again, and the get and the
   has_key that follow the set return the default and False. *)
C5_Set ==
    (Did("set") /\ last'.a.timeout = PyInt(0)) =>
        /\ RowAfter(UserKey(last')).stored
        /\ Expired(RowAfter(UserKey(last')), now')

C5_Stays ==
    \A k \in MadeKeys :
        (RowOf(k).stored /\ Expired(RowOf(k), now)) =>
            \/ ~Live(RowAfter(k), now')
            \/ last'.op \in {"set", "add", "incr", "decr"} /\ UserKey(last') = k

C5_Reads ==
    (last.op = "set" /\ last.a.timeout = PyInt(0)) =>
        /\ Then("get") => last'.ret = last'.a.default
        /\ Then("has_key") => last'.ret = PyBool(FALSE)

C5_ZeroTimeout == [][C5_Set /\ C5_Stays /\ C5_Reads]_vars

C5_Witness ==
    /\ last.op = "has_key"
    /\ last.ret = PyBool(FALSE)
    /\ RowOf(UserKey(last)).stored
    /\ RowOf(UserKey(last)).expire_time = PyInt(now - 1)

(* C6: a key whose row is stored but expired is absent to every call: get
   returns the default, has_key False, read raises KeyError, incr and decr
   raise or start from default, and add writes and returns True. *)
C6_Absent ==
    (Stepped /\ Open /\ last'.op \in KeyedMethods) =>
        LET k == UserKey(last')
            op == last'.op
            ret == last'.ret
            d == last'.a.default
        IN (RowOf(k).stored /\ Expired(RowOf(k), now)) =>
            /\ op = "get" => ret = d
            /\ op = "has_key" => ret = PyBool(FALSE)
            /\ op = "read" => ret = Raise("KeyError")
            /\ (op \in {"incr", "decr"} /\ d = PyNone) =>
                   ret = Raise("ValueError") /\ store' = store
            /\ (op = "incr" /\ d # PyNone) => ret = PyInt(d.n + last'.a.delta)
            /\ (op = "decr" /\ d # PyNone) => ret = PyInt(d.n - last'.a.delta)
            /\ op = "add" =>
                   /\ ret = PyBool(TRUE)
                   /\ RowAfter(k).value = last'.a.value
                   /\ RowAfter(k).tag = last'.a.tag

C6_ExpiredIsAbsent == [][C6_Absent]_vars

C6_Witness ==
    /\ last.op = "read"
    /\ last.ret = Raise("KeyError")
    /\ RowOf(UserKey(last)).stored
    /\ Expired(RowOf(UserKey(last)), now)

(* C7: evict(tag) removes the stored rows carrying the tag, in every shard,
   returns how many they were, and leaves every other row as it was. *)
C7_Evict ==
    Did("evict") =>
        LET gone == {k \in StoredKeys : RowOf(k).tag = last'.a.tag} IN
        /\ last'.ret = PyInt(Cardinality(gone))
        /\ \A k \in MadeKeys : RowAfter(k) = IF k \in gone THEN NoRow ELSE RowOf(k)

C7_EvictExact == [][C7_Evict]_vars

C7_Witness ==
    /\ last.op = "evict"
    /\ last.ret.t = "int" /\ last.ret.n >= 1
    /\ \E k \in StoredKeys : RowOf(k).tag # last.a.tag

(* C8: expire() removes the stored rows that are expired, in every shard,
   returns how many they were and leaves every other row as it was; the
   expire() that follows it at once returns 0. *)
C8_Expire ==
    Did("expire") =>
        LET gone == {k \in StoredKeys : Expired(RowOf(k), now)} IN
        /\ last'.ret = PyInt(Cardinality(gone))
        /\ \A k \in MadeKeys : RowAfter(k) = IF k \in gone THEN NoRow ELSE RowOf(k)
        /\ (last.op = "expire" /\ ~IsError(last.ret)) => last'.ret = PyInt(0)

C8_ExpireExact == [][C8_Expire]_vars

C8_Witness ==
    /\ last.op = "expire"
    /\ last.ret.t = "int" /\ last.ret.n >= 1
    /\ StoredKeys # {}

(* C9: close() closes the handle and never fails; on a closed handle every
   other call raises ClosedCache and leaves the store as it was. *)
C9_Closed ==
    (Stepped /\ last'.op # "tick") =>
        IF last'.op = "close"
        THEN ~IsError(last'.ret) /\ closed'[Main]
        ELSE /\ closed'[Main] = closed[Main]
             /\ closed[Main] => (last'.ret = Raise("ClosedCache") /\ store' = store)

C9_AfterClose == [][C9_Closed]_vars

C9_Witness ==
    /\ closed[Main]
    /\ last.op = "set"
    /\ last.ret = Raise("ClosedCache")
    /\ StoredKeys # {}

(* C10: delete returns True when the key was present, changes nothing and
   raises nothing when it was absent, and leaves the key absent. *)
C10_Delete ==
    (Stepped /\ last'.op = "delete" /\ Open) =>
        /\ IF RowOf(UserKey(last')).stored
           THEN last'.ret = PyBool(TRUE)
           ELSE ~IsError(last'.ret) /\ store' = store
        /\ ~RowAfter(UserKey(last')).stored

C10_DeleteReturnsTrue == [][C10_Delete]_vars

(* C13: decr(key, delta, version, default) hands the core the call that
   incr(key, -delta, version, default) hands it, on the key versioned once,
   returns what that incr returns and leaves the store that incr leaves; the
   value may go below zero. *)
C13_Decr ==
    (Stepped /\ last'.op = "decr") =>
        LET a == last'.a
            c == incr(a.key, 0 - a.delta, a.version, a.default, TRUE)
            r == Fanout(store, now, closed[Main], c)
        IN /\ last'.c = c
           /\ last'.c.key = make_key(a.key, a.version)
           /\ last'.ret = MethodReturn("incr", r.ret)
           /\ store' = r.store

C13_DecrIsIncr == [][C13_Decr]_vars

C13_Witness ==
    /\ last.op = "decr"
    /\ last.ret = PyInt(-1)
    /\ RowOf(UserKey(last)).value = -1

Indexed(st) == [s \in Shards |-> [st[s] EXCEPT !.index = IndexOf(st[s].rows)]]
Unindexed(st) == [s \in Shards |-> [st[s] EXCEPT !.index = NoIndex]]

(* C15: a shard's tag index, when it has one, maps each tag to exactly the
   stored keys of the shard that carry it ... *)
C15_IndexExact ==
    \A s \in Shards :
        store[s].index.exists =>
            \A g \in Tags :
                store[s].index.keys[g] =
                    {k \in MadeKeys : store[s].rows[k].stored /\ store[s].rows[k].tag = g}

(* ... evict removes the same rows and returns the same count through the
   index as through the scan ... *)
C15_Evict ==
    Did("evict") =>
        LET ix == Fanout(Indexed(store), now, FALSE, last'.c)
            sc == Fanout(Unindexed(store), now, FALSE, last'.c)
        IN /\ last'.ret = ix.ret /\ last'.ret = sc.ret
           /\ \A s \in Shards : /\ store'[s].rows = ix.store[s].rows
                                 /\ store'[s].rows = sc.store[s].rows

(* ... and create_tag_index and drop_tag_index leave every shard with and
   without an index, and change nothing when it is so already. *)
C15_Idempotent ==
    /\ Did("create_tag_index") =>
           /\ store' = Indexed(store)
           /\ store = Indexed(store) => store' = store
    /\ Did("drop_tag_index") =>
           /\ store' = Unindexed(store)
           /\ store = Unindexed(store) => store' = store

(* C15: the tag index is exact in every state, evict does the same with and
   without it, and creating or dropping it twice is creating or dropping it
   once. *)
C15_TagIndex == []C15_IndexExact /\ [][C15_Evict /\ C15_Idempotent]_vars

C15_Witness ==
    /\ last.op = "incr"
    /\ ~IsError(last.ret)
    /\ \E s \in Shards, g \in Tags :
           /\ store[s].index.exists
           /\ store[s].index.keys[g] = {UserKey(last)}

----------------------------------------------------------------------------
(* Properties of SpecTTL *)

Writes == Stepped /\ last'.op \in {"add", "set"}

(* C20 as stated: the TTL that add and set hand to the core is never 0,
   whatever the timeout argument and the configured default timeout. *)
C20_NeverZero == [][Writes => last'.c.ttl # PyInt(0)]_vars

C20_Timeout ==
    Writes =>
        LET timeout == last'.a.timeout
            ttl == last'.c.ttl
        IN /\ timeout = DEFAULT_TIMEOUT => ttl = default_timeout
           /\ timeout = PyInt(0) => ttl = PyInt(-1)
           /\ timeout = PyNone => ttl = PyNone
           /\ timeout \notin {DEFAULT_TIMEOUT, PyInt(0), PyNone} => ttl = timeout
           /\ ttl = PyInt(0) <=> (timeout = DEFAULT_TIMEOUT /\ default_timeout = PyInt(0))
           /\ (ttl = PyInt(0) /\ Open /\ last'.ret = PyBool(TRUE)) =>
                  Expired(RowAfter(UserKey(last')), now')

(* C20: get_backend_timeout maps a timeout argument of 0 to -1, DEFAULT_TIMEOUT
   to the configured default as it is, None to no expiry and every other
   value to itself; the TTL handed to the core is 0 exactly when the
   configured default is 0 and the argument is DEFAULT_TIMEOUT, and the row
   written with it is expired at once. *)
C20_BackendTimeout == [][C20_Timeout]_vars

C20_Witness ==
    /\ last.op = "set"
    /\ last.a.timeout = DEFAULT_TIMEOUT
    /\ last.c.ttl = PyInt(0)
    /\ last.ret = PyBool(TRUE)
    /\ RowOf(UserKey(last)).stored

----------------------------------------------------------------------------
(* Properties of SpecConc *)

Counted(p) == pc[p] = "done" /\ ~IsError(result[p])

RECURSIVE Applied(_, _)
Applied(k, P) ==
    IF P = {} THEN 0
    ELSE LET p == CHOOSE x \in P : TRUE
         IN (IF Counted(p) /\ req[p].key = k
             THEN (IF req[p].op = "incr" THEN req[p].delta
                   ELSE IF req[p].op = "decr" THEN 0 - req[p].delta ELSE 0)
             ELSE 0) + Applied(k, P \ {p})

AllIncrOn(k) ==
    \A p \in Procs :
        Counted(p) /\ req[p].op = "incr" /\ req[p].key = k /\ req[p].delta = 1

(* C3: no interleaving of incr and decr calls loses an update: a counter
   that started at 0 holds the sum of the calls that have returned, and when
   every process has returned from incr(k, 1) it holds NProcs and the
   values returned are 1..NProcs, each once. *)
C3_NoLostUpdate ==
    \A a \in KeyArgs :
        LET k == make_key(a[1], a[2]) IN
        /\ (\A p \in Procs : pc[p] \in {"idle", "done"}) =>
               RowOf(k).value = Applied(k, Procs)
        /\ AllIncrOn(k) =>
               /\ RowOf(k).value = NProcs
               /\ {result[p].n : p \in Procs} = 1..NProcs

C3_Witness ==
    /\ AllIncrOn(make_key("b", PyInt(2)))
    /\ RowOf(make_key("b", PyInt(2))).value = NProcs

----------------------------------------------------------------------------
(* Properties of SpecLock.  A step is a step of one process inside or into
   its call; TimedOut(p) is the step in which p's call ends in Timeout. *)

KeyA == make_key("a", PyNone)
KeyB == make_key("b", PyInt(2))

Pending(p) == pc[p] \in {"begin", "txn"}
TimedOut(p) == pc[p] # "done" /\ pc'[p] = "done" /\ result'[p] = Raise("Timeout")
Target(p) == IF Cur(p).op \in AggOps THEN NextShard(p) ELSE ShardOf(Cur(p).key)
Holds(p) == {s \in Shards : lock[s] = p}

KeyL == make_key("b", PyNone)
Exists(fs, f) == fs[f].state \in {"partial", "temp", "placed", "unlinked"}
Content(fs) == {<<f, fs[f].data>> : f \in {g \in Files : Exists(fs, g)}}
WritePathStep(p) ==
    pc'[p] = "file" /\ (writer'[p] # writer[p] \/ attempts'[p] # attempts[p])

(* C11: a single-key call that ends in Timeout has committed no transaction
   and holds no lock, and the step that ends it leaves every shard, rows
   and tag index, every lock and every row's file reference as it was;
   after one attempt as after several.  The content area is as it was too,
   but for the file a set of a large value had placed, which is gone ... *)
C11_NoEffect ==
    \A p \in Procs :
        (TimedOut(p) /\ req[p].op \in {"add", "set", "delete", "incr", "decr"}) =>
            /\ store' = store
            /\ lock' = lock
            /\ refs' = refs
            /\ Holds(p) = {}
            /\ applied[p] = 0 /\ applied'[p] = 0
            /\ Content(files') = {e \in Content(files) : e[1] # writer[p].file}
            /\ \A f \in Files : Exists(files', f) => files'[f] = files[f]

(* ... and that file is the call's own: it did not exist before the call,
   the steps of the call up to the transaction change nothing but it, and
   no row references it. *)
C11_OwnFile ==
    \A p \in Procs :
        /\ WritePathStep(p) =>
               /\ store' = store /\ lock' = lock /\ refs' = refs
               /\ \A f \in Files \ {writer'[p].file} : files'[f] = files[f]
               /\ pc[p] = "idle" => ~Exists(files, writer'[p].file)
        /\ pc[p] = "file" =>
               /\ Exists(files, writer[p].file)
               /\ \A k \in MadeKeys : refs[k] # writer[p].file

(* C11: add, set, delete, incr or decr ending in Timeout leaves the shard's
   entries, its tag index and its files as they were before the call. *)
C11_TimeoutNoEffect == [][C11_NoEffect /\ C11_OwnFile]_vars

C11_Witness ==
    \E p, q \in Procs :
        /\ pc[p] = "done" /\ req[p].key = KeyL /\ req[p].retry
        /\ result[p] = Raise("Timeout")
        /\ \E f \in Files : files[f].state = "removed"
        /\ \A s \in Shards : store[s].index.exists
        /\ pc[q] = "txn" /\ req[q].op = "decr" /\ ShardOf(req[q].key) = ShardOf(KeyL)

(* C12: a call that finds its shard locked tries again only when retry is
   set and the budget allows another attempt; it ends in Timeout after one
   attempt without retry and after MaxAttempts attempts with it ... *)
C12_Attempts ==
    \A p \in Procs :
        /\ attempts'[p] > attempts[p] =>
               /\ req[p].retry /\ attempts'[p] = attempts[p] + 1
               /\ pc[p] = "begin" /\ lock[Target(p)] \notin {0, p}
        /\ TimedOut(p) =>
               /\ lock[Target(p)] \notin {0, p}
               /\ attempts[p] + 1 = (IF req[p].retry THEN MaxAttempts ELSE 1)

(* ... the number of attempts stays within the budget, a single-key call
   commits one transaction at most and an aggregate call one a shard ... *)
C12_Once ==
    \A p \in Procs :
        /\ attempts[p] < MaxAttempts
        /\ applied[p] <= (IF req[p].op \in AggOps THEN ShardCount ELSE 1)

(* ... and every call that has been made returns or raises. *)
C12_Returns == \A p \in Procs : Pending(p) ~> (pc[p] = "done")

(* C12: under lock contention every call terminates, after one attempt
   without retry and within the retry budget with it, and applies its
   effect once at most. *)
C12_Terminates == [][C12_Attempts]_vars /\ []C12_Once /\ C12_Returns

C12_Witness ==
    \E p, q \in Procs :
        /\ pc[p] = "done" /\ req[p].op = "delete" /\ req[p].retry
        /\ result[p] = Raise("Timeout")
        /\ pc[q] = "done" /\ req[q].key = req[p].key /\ applied[q] = 1

Adds(k) == {p \in Procs : pc[p] # "idle" /\ req[p].op = "add" /\ req[p].key = k}
Added(k) == {p \in Adds(k) : pc[p] = "done" /\ result[p] = PyBool(TRUE)}

(* C14 as stated: once concurrent adds of the same absent key have all
   returned, exactly one has returned True and every other one False. *)
C14_OthersFalse ==
    (\A p \in Procs : pc[p] = "done" /\ p \in Adds(KeyB)) =>
        /\ Cardinality(Added(KeyB)) = 1
        /\ \A p \in Procs \ Added(KeyB) : result[p] = PyBool(FALSE)

(* C14: while the calls made are adds of one key that was absent, one of
   them at most has returned True; when every process has made such a call
   and it is over, exactly one has returned True, the others have returned
   False or, having found the shard locked for their whole retry budget,
   raised Timeout, and the value stored is that of the call that returned
   True. *)
C14_OneAddWins ==
    (\A p \in Procs : pc[p] # "idle" => p \in Adds(KeyB)) =>
        /\ Cardinality(Added(KeyB)) <= 1
        /\ \A p \in Added(KeyB) : RowOf(KeyB).stored /\ RowOf(KeyB).value = p
        /\ (\A p \in Procs : pc[p] = "done") =>
               /\ Cardinality(Added(KeyB)) = 1
               /\ \A p \in Procs \ Added(KeyB) :
                      result[p] \in {PyBool(FALSE), Raise("Timeout")}

C14_Witness ==
    /\ \A p \in Procs : pc[p] = "done" /\ p \in Adds(KeyB)
    /\ \E p \in Procs : result[p] = PyBool(FALSE) /\ RowOf(KeyB).value # p

(* C18: a process outside a transaction holds no lock and one inside it
   holds the lock of the shard it works on and no other ... *)
C18_OwnShardOnly ==
    \A p \in Procs :
        Holds(p) = IF pc[p] = "txn" THEN {Target(p)} ELSE {}

(* ... a pending call can always take a step, and a call whose own shard is
   free can take the lock whatever locks are held on other shards. *)
C18_CanStep ==
    \A p \in Procs :
        /\ Pending(p) => ENABLED Step(p)
        /\ (pc[p] = "begin" /\ Cur(p).op \in MutatingOps \cup AggOps
               /\ lock[Target(p)] = 0) =>
               ENABLED (Acquire(p) \/ AggAcquire(p))

(* C18: no lock is held across calls, a call takes only the lock of the
   shard it works on, and no state with a pending call is a deadlock. *)
C18_NoDeadlock == C18_OwnShardOnly /\ C18_CanStep

C18_Witness ==
    \E p, q \in Procs :
        /\ pc[p] = "txn" /\ req[p].op = "set"
        /\ pc[q] = "begin" /\ req[q].op = "add" /\ attempts[q] = 0
        /\ Target(q) # Target(p)

(* The rows an aggregate call removes from a shard: clear every stored row,
   expire the stored rows past their expiry time, evict the stored rows
   that carry the tag. *)
Removes(op, row) ==
    /\ row.stored
    /\ CASE op = "clear" -> TRUE
         [] op = "expire" -> Expired(row, now)
         [] op = "evict" -> row.tag = "red"
         [] OTHER -> FALSE

(* C19: the step in which clear, expire or evict ends in Timeout changes no
   shard, so what the call removed on the shards it had finished stays
   removed and the shards it had not reached stay as they were ... *)
C19_TimeoutKeeps ==
    \A p \in Procs :
        (TimedOut(p) /\ req[p].op \in AggOps) =>
            /\ store' = store
            /\ applied'[p] = applied[p]

(* ... each of its transactions removes the rows of one shard and touches
   no other shard ... *)
C19_OneShard ==
    \A p \in Procs :
        (pc[p] = "txn" /\ pc'[p] # "txn" /\ req[p].op \in AggOps) =>
            /\ \A k \in MadeKeys :
                   store'[applied[p]].rows[k].stored <=>
                       /\ store[applied[p]].rows[k].stored
                       /\ ~Removes(req[p].op, store[applied[p]].rows[k])
            /\ \A s \in Shards \ {applied[p]} : store'[s] = store[s]

(* ... and a shard changes only in the committing step of the process that
   holds its lock. *)
C19_OwnTxn ==
    \A s \in Shards :
        store'[s] # store[s] =>
            /\ lock[s] \in Procs
            /\ pc[lock[s]] = "txn" /\ pc'[lock[s]] # "txn"
            /\ lock'[s] = 0

(* C19: an aggregate call that times out on one shard leaves the removals
   it committed on other shards in place and the remaining shards
   untouched; entries go only in a shard's own committed transaction. *)
C19_PartialAggregate == [][C19_TimeoutKeeps /\ C19_OneShard /\ C19_OwnTxn]_vars

C19_Witness ==
    \E p \in Procs :
        /\ pc[p] = "done" /\ req[p].op = "clear" /\ result[p] = Raise("Timeout")
        /\ applied[p] = 1
        /\ ~RowOf(KeyA).stored
        /\ ShardOf(KeyA) = 0

----------------------------------------------------------------------------
(* Properties of SpecBlob *)

Whole(f) == files[f].state = "placed" /\ files[f].data # 0
Orphans == {f \in Files : files[f].state \in {"partial", "temp"}
                             /\ \A p \in Procs : writer[p].file # f}

(* C16: whatever the writers, the readers and the crashes have done, the
   file a committed row references is in place and completely written, and
   so was the file of every open stream when the stream was opened. *)
C16_RowFileWhole ==
    /\ \A k \in MadeKeys : refs[k] # 0 => Whole(refs[k])
    /\ \A p \in Procs : streams[p] # NoStream => streams[p].data # 0

C16_Witness ==
    /\ crashes > 0
    /\ \E f \in Orphans : files[f].state = "partial"
    /\ refs[KeyA] # 0
    /\ \E p \in Procs : streams[p].file = refs[KeyA]

(* An open stream still reads the bytes it was opened on. *)
C17_SameVersion ==
    \A p \in Procs :
        streams[p] # NoStream =>
            /\ files[streams[p].file].state \in {"placed", "unlinked"}
            /\ files[streams[p].file].data = streams[p].data

(* A file no row references any more is gone as soon as no stream is open
   on it. *)
C17_GoneWithLast ==
    \A f \in Files : files[f].state = "unlinked" => Readers(streams, f) # {}

(* A file that was in place is removed only in a step after which no row
   and no stream references it. *)
C17_Removal ==
    \A f \in Files :
        (files[f].state \in {"placed", "unlinked"} /\ files'[f].state = "removed") =>
            /\ Readers(streams', f) = {}
            /\ \A k \in MadeKeys : refs'[k] # f

(* C17: a stream keeps the file version it was opened on through later
   overwrites and deletes of the key; the old file is removed only when no
   stream references it, and is removed when the last such stream closes. *)
C17_StreamKeepsVersion ==
    [](C17_SameVersion /\ C17_GoneWithLast) /\ [][C17_Removal]_vars

C17_Witness ==
    \E p \in Procs :
        /\ streams[p] # NoStream
        /\ files[streams[p].file].state = "unlinked"
        /\ refs[KeyA] # 0
        /\ files[refs[KeyA]].data # streams[p].data

====
